---- MODULE Spec2Model ----
(***************************************************************************)
(* A model of the COVID tracking data explorer: the CDCTrackingDatabase    *)
(* (database.py), the attribute filters, create_filters and limit          *)
(* (filters.py), the date helpers (helpers.py), the loader (extract.py)    *)
(* and the query subcommand (main.py).                                     *)
(*                                                                         *)
(* Python objects are modelled by reference: `objs` is the heap of         *)
(* CDCTrackingObject instances (object i has the attributes objs[i]), and  *)
(* every list (the base list, the index buckets, the yielded stream)       *)
(* holds object references, that is indexes into `objs`.                   *)
(* A Python str that the program builds or parses (a date key) is a        *)
(* sequence of one-character strings; a state code is an atomic string.    *)
(* An optional argument is <<>> (None) or <<v>>.                           *)
(***************************************************************************)
EXTENDS Integers, Sequences, FiniteSets, TLC

VARIABLES
    objs,           \* the heap: objs[i] is the attribute record of object i
    cdcObjs,        \* CDCTrackingDatabase._cdcObjs: list of object references
    data_by_date,   \* CDCTrackingDatabase._data_by_date: defaultdict(list)
    data_by_state,  \* CDCTrackingDatabase._data_by_state: defaultdict(list)
    constructed,    \* TRUE once CDCTrackingDatabase.__init__ has run
    gen,            \* the generator object returned by the last query call
    ret,            \* what the last index lookup returned (or raised)
    args,           \* the criteria bundle of the last create_filters call
    filters,        \* the list the last create_filters call returned
    gen2,           \* a second generator object, of another query call
    lim,            \* the last call of limit: its arguments and what it returned
    cmd,            \* the last run of the query subcommand: args.limit, what it printed
    csv             \* the last call of load_cdc_data: the rows read and its outcome

vars == <<objs, cdcObjs, data_by_date, data_by_state, constructed, gen, ret,
          args, filters, gen2, lim, cmd, csv>>

\* the state only the second generator, limit, the query subcommand and the
\* loader write
more == <<gen2, lim, cmd, csv>>

----------------------------------------------------------------------------
(* Bounds *)

\* longest base list of records the database is built from
MaxRecords == 3

\* most criteria a bundle of the create_filters check sets at once
MaxCriteria == 3

\* longest sequence limit is called on
MaxItems == 3

\* most rows of a CSV file the loader reads
MaxRows == 3

----------------------------------------------------------------------------
(* Values: calendar dates, datetimes, strings *)

None == <<>>
Some(v) == <<v>>
IsNone(o) == Len(o) = 0
Val(o) == o[1]

Date(y, m, d) == [year |-> y, month |-> m, day |-> d]
DateTime(y, m, d, h) == [year |-> y, month |-> m, day |-> d, hour |-> h]

\* datetime.datetime.date(): the calendar day of a datetime, time-of-day dropped
DatePart(dt) == [year |-> dt.year, month |-> dt.month, day |-> dt.day]

\* datetime.date ordering: lexicographic on (year, month, day)
DateLT(a, b) ==
    \/ a.year < b.year
    \/ a.year = b.year /\ a.month < b.month
    \/ a.year = b.year /\ a.month = b.month /\ a.day < b.day

DateLE(a, b) == DateLT(a, b) \/ a = b

DigitChar(n) == <<"0", "1", "2", "3", "4", "5", "6", "7", "8", "9">>[n + 1]

\* %m and %d of strftime: two digits, zero padded
Pad2(n) == <<DigitChar((n \div 10) % 10), DigitChar(n % 10)>>

\* %Y of strftime for a four-digit year
Pad4(n) == <<DigitChar((n \div 1000) % 10), DigitChar((n \div 100) % 10),
             DigitChar((n \div 10) % 10), DigitChar(n % 10)>>

\* helpers.datetime_to_str: strftime(dt, "%Y-%m-%d")
datetime_to_str(dt) ==
    Pad4(dt.year) \o <<"-">> \o Pad2(dt.month) \o <<"-">> \o Pad2(dt.day)

----------------------------------------------------------------------------
(* Filters: filters.py *)

\* AttributeFilter.__init__: a filter is its class, its operator, its value
Filter(cls, op, value) == [cls |-> cls, op |-> op, value |-> value]

\* a get that reads the cumulative counter
OnVentFilter_get_cumulative(covid_data) == covid_data.onVentilatorCumulative

\* a get that returns covid_data.date, the datetime, without .date()
DateFilter_get_datetime(covid_data) == covid_data.date

\* the get classmethod of each concrete subclass
DateFilter_get(covid_data) == DatePart(covid_data.date)
StateFilter_get(covid_data) == covid_data.state
HospitalizedFilter_get(covid_data) == covid_data.hospitalizedCurrently
IcuFilter_get(covid_data) == covid_data.inIcuCurrently
OnVentFilter_get(covid_data) == covid_data.onVentilatorCurrently
DeathFilter_get(covid_data) == covid_data.death

\* AttributeFilter.get raises UnsupportedCriterionError: only the base class
GetRaises(cls) == cls = "AttributeFilter"

\* dispatch of self.get on the class of the filter
Get(cls, covid_data) ==
    CASE cls = "DateFilter" -> DateFilter_get(covid_data)
      [] cls = "StateFilter" -> StateFilter_get(covid_data)
      [] cls = "HospitalizedFilter" -> HospitalizedFilter_get(covid_data)
      [] cls = "IcuFilter" -> IcuFilter_get(covid_data)
      [] cls = "OnVentFilter" -> OnVentFilter_get(covid_data)
      [] cls = "DeathFilter" -> DeathFilter_get(covid_data)

\* operator.gt and operator.lt on dates where the code passes operator.ge and
\* operator.le
DateOp_strict(op, a, b) ==
    CASE op = "eq" -> a = b
      [] op = "ge" -> DateLT(b, a)
      [] op = "le" -> DateLT(a, b)

\* operator.eq / operator.ge / operator.le on dates
DateOp(op, a, b) ==
    CASE op = "eq" -> a = b
      [] op = "ge" -> DateLE(b, a)
      [] op = "le" -> DateLE(a, b)

\* operator.gt and operator.lt where the code passes operator.ge and operator.le
IntOp_strict(op, a, b) ==
    CASE op = "eq" -> a = b
      [] op = "ge" -> a > b
      [] op = "le" -> a < b

\* operator.eq / operator.ge / operator.le on integers
IntOp(op, a, b) ==
    CASE op = "eq" -> a = b
      [] op = "ge" -> a >= b
      [] op = "le" -> a <= b

\* operator.eq on state codes (the only operator a StateFilter is built with)
StrOp(op, a, b) ==
    CASE op = "eq" -> a = b

\* AttributeFilter.__call__: self.op(self.get(covid_data), self.value)
Call(f, covid_data) ==
    CASE f.cls = "DateFilter" -> DateOp(f.op, Get(f.cls, covid_data), f.value)
      [] f.cls = "StateFilter" -> StrOp(f.op, Get(f.cls, covid_data), f.value)
      [] OTHER -> IntOp(f.op, Get(f.cls, covid_data), f.value)

\* `if x is not None:` where the code tests `if x:`
TruthyInt_notNone(o) == ~IsNone(o)

\* Python truthiness of an optional argument, by the type of its value: None
\* is falsy, so are the integer 0 and the empty string; a date never is
TruthyDate(o) == ~IsNone(o)
TruthyStr(o) == ~IsNone(o) /\ Val(o) # ""
TruthyInt(o) == ~IsNone(o) /\ Val(o) # 0

\* filters.append(AttributeFilter(op, x)) where the code names the subclass
AppendIf_base(fs, truthy, cls, op, o) ==
    IF truthy THEN Append(fs, Filter("AttributeFilter", op, Val(o))) ELSE fs

\* filters.insert(0, ...) where the code appends
AppendIf_insertFirst(fs, truthy, cls, op, o) ==
    IF truthy THEN <<Filter(cls, op, Val(o))>> \o fs ELSE fs

\* one `if x: filters.append(Cls(op, x))` statement of create_filters
AppendIf(fs, truthy, cls, op, o) ==
    IF truthy THEN Append(fs, Filter(cls, op, Val(o))) ELSE fs

\* filters.create_filters: the twelve if-statements in source order
create_filters(a) ==
    LET f0 == <<>>
        f1 == AppendIf(f0, TruthyDate(a.date), "DateFilter", "eq", a.date)
        f2 == AppendIf(f1, TruthyDate(a.start_date), "DateFilter", "ge", a.start_date)
        f3 == AppendIf(f2, TruthyDate(a.end_date), "DateFilter", "le", a.end_date)
        f4 == AppendIf(f3, TruthyStr(a.state), "StateFilter", "eq", a.state)
        f5 == AppendIf(f4, TruthyInt(a.hospitalized_min), "HospitalizedFilter", "ge",
                       a.hospitalized_min)
        f6 == AppendIf(f5, TruthyInt(a.hospitalized_max), "HospitalizedFilter", "le",
                       a.hospitalized_max)
        f7 == AppendIf(f6, TruthyInt(a.icu_min), "IcuFilter", "ge", a.icu_min)
        f8 == AppendIf(f7, TruthyInt(a.icu_max), "IcuFilter", "le", a.icu_max)
        f9 == AppendIf(f8, TruthyInt(a.onvent_min), "OnVentFilter", "ge", a.onvent_min)
        f10 == AppendIf(f9, TruthyInt(a.onvent_max), "OnVentFilter", "le", a.onvent_max)
        f11 == AppendIf(f10, TruthyInt(a.death_min), "DeathFilter", "ge", a.death_min)
        f12 == AppendIf(f11, TruthyInt(a.death_max), "DeathFilter", "le", a.death_max)
    IN  f12

----------------------------------------------------------------------------
(* limit: filters.py *)

\* an iterator over the sequence s that has handed out its first p elements
Iter(s, p) == [items |-> s, pos |-> p]

\* a comprehension that keeps the elements with i <= n
RECURSIVE Comprehension_inclusive(_, _, _)
Comprehension_inclusive(it, n, i) ==
    IF it.pos >= Len(it.items)
    THEN [list |-> <<>>, it |-> it]
    ELSE LET x == it.items[it.pos + 1]
             rest == Comprehension_inclusive([it EXCEPT !.pos = @ + 1], n, i + 1)
         IN  [list |-> (IF i <= n THEN <<x>> ELSE <<>>) \o rest.list, it |-> rest.it]

\* [x for i, x in enumerate(iterator) if i < n]: enumerate takes the next
\* element and numbers it i (from 0) until the iterator is exhausted; the
\* element is kept when i < n.  The result is the list built and the
\* iterator as the loop leaves it.
RECURSIVE Comprehension(_, _, _)
Comprehension(it, n, i) ==
    IF it.pos >= Len(it.items)
    THEN [list |-> <<>>, it |-> it]
    ELSE LET x == it.items[it.pos + 1]
             rest == Comprehension([it EXCEPT !.pos = @ + 1], n, i + 1)
         IN  [list |-> (IF i < n THEN <<x>> ELSE <<>>) \o rest.list, it |-> rest.it]

\* a limit that returns the iterator for None only
limit_noneOnly(it, n) ==
    IF IsNone(n)
    THEN [kind |-> "iterator", list |-> <<>>, it |-> it]
    ELSE LET c == Comprehension(it, Val(n), 0)
         IN  [kind |-> "list", list |-> c.list, it |-> c.it]

\* limit(iterator, n): the iterator itself when n is 0 or None, else the
\* list the comprehension builds.  kind tells which of the two is returned,
\* it is the iterator after the call.
limit(it, n) ==
    IF IsNone(n) \/ Val(n) = 0
    THEN [kind |-> "iterator", list |-> <<>>, it |-> it]
    ELSE LET c == Comprehension(it, Val(n), 0)
         IN  [kind |-> "list", list |-> c.list, it |-> c.it]

\* the default of the query subcommand: limit(results, args.limit or 50)
DefaultLimit == 50

\* args.limit handed to limit as it is
LimitOrDefault_asGiven(l) == l

\* args.limit or 50: the right operand when args.limit is None or 0
LimitOrDefault(l) == IF IsNone(l) \/ Val(l) = 0 THEN Some(DefaultLimit) ELSE l

\* the query subcommand has not run
NoCmd == [status |-> "none", limit |-> None, printed |-> <<>>]

\* no call of limit yet
NoLimit ==
    [status |-> "none", n |-> None, before |-> Iter(<<>>, 0), kind |-> "none",
     list |-> <<>>, after |-> Iter(<<>>, 0)]

----------------------------------------------------------------------------
(* The database: database.py *)

\* an empty dict
EmptyDict == [k \in {} |-> <<>>]

\* the lookup of a plain dict: a missing key raises KeyError
DefaultDictGet_plain(d, k) ==
    IF k \in DOMAIN d
    THEN [dict |-> d, value |-> d[k], raised |-> FALSE]
    ELSE [dict |-> d, value |-> <<>>, raised |-> TRUE]

\* defaultdict(list).__getitem__: a missing key is first inserted with the
\* value list(), and the lookup never raises
DefaultDictGet(d, k) ==
    IF k \in DOMAIN d
    THEN [dict |-> d, value |-> d[k], raised |-> FALSE]
    ELSE [dict |-> d @@ (k :> <<>>), value |-> <<>>, raised |-> FALSE]

\* d[k].insert(0, x) where the code appends to d[k]
DictAppend_prepend(d, k, x) ==
    IF k \in DOMAIN d THEN [d EXCEPT ![k] = <<x>> \o @] ELSE d @@ (k :> <<x>>)

\* d[k] = [x] where the code appends to d[k]
DictAppend_overwrite(d, k, x) ==
    IF k \in DOMAIN d THEN [d EXCEPT ![k] = <<x>>] ELSE d @@ (k :> <<x>>)

\* d[k].append(x) on a defaultdict(list)
DictAppend(d, k, x) ==
    LET g == DefaultDictGet(d, k)
    IN  [g.dict EXCEPT ![k] = Append(g.value, x)]

\* the loop written over reversed(cdcObjs)
RECURSIVE InitLoop_reversed(_, _, _, _, _)
InitLoop_reversed(heap, list, i, by_date, by_state) ==
    IF i > Len(list)
    THEN [by_date |-> by_date, by_state |-> by_state]
    ELSE LET d == list[Len(list) + 1 - i]
         IN  InitLoop_reversed(heap, list, i + 1,
                               DictAppend(by_date, datetime_to_str(heap[d].date), d),
                               DictAppend(by_state, heap[d].state, d))

\* the loop of CDCTrackingDatabase.__init__, from element i of the list on
RECURSIVE InitLoop(_, _, _, _, _)
InitLoop(heap, list, i, by_date, by_state) ==
    IF i > Len(list)
    THEN [by_date |-> by_date, by_state |-> by_state]
    ELSE LET d == list[i]
         IN  InitLoop(heap, list, i + 1,
                      DictAppend(by_date, datetime_to_str(heap[d].date), d),
                      DictAppend(by_state, heap[d].state, d))

\* a loop that returns the verdict of the first filter alone
AllFilters_first(fs, obj, i) ==
    IF i > Len(fs) THEN "true"
    ELSE IF GetRaises(fs[i].cls) THEN "raise"
    ELSE IF Call(fs[i], obj) THEN "true"
    ELSE "false"

\* any() where the code calls all()
RECURSIVE AllFilters_any(_, _, _)
AllFilters_any(fs, obj, i) ==
    IF i > Len(fs) THEN "false"
    ELSE IF GetRaises(fs[i].cls) THEN "raise"
    ELSE IF Call(fs[i], obj) THEN "true"
    ELSE AllFilters_any(fs, obj, i + 1)

\* all(map(lambda f: f(obj), filters)): stops at the first filter that is
\* false; a filter whose get raises ends the evaluation with the exception
RECURSIVE AllFilters(_, _, _)
AllFilters(fs, obj, i) ==
    IF i > Len(fs) THEN "true"
    ELSE IF GetRaises(fs[i].cls) THEN "raise"
    ELSE IF Call(fs[i], obj) THEN AllFilters(fs, obj, i + 1)
    ELSE "false"

\* the loop written over reversed(self._cdcObjs)
RECURSIVE ScanFrom_reversed(_, _, _, _)
ScanFrom_reversed(heap, list, fs, i) ==
    IF i > Len(list) THEN [kind |-> "stop", pos |-> Len(list)]
    ELSE LET obj == list[Len(list) + 1 - i]
             m == AllFilters(fs, heap[obj], 1)
         IN  IF m = "raise" THEN [kind |-> "raise", pos |-> i]
             ELSE IF m = "true" THEN [kind |-> "yield", pos |-> i, obj |-> obj]
             ELSE ScanFrom_reversed(heap, list, fs, i + 1)

\* the filtering loop of query (lines 33-35), resumed at element i: runs to
\* the next yield, to an exception, or off the end of the list
RECURSIVE ScanFrom(_, _, _, _)
ScanFrom(heap, list, fs, i) ==
    IF i > Len(list) THEN [kind |-> "stop", pos |-> Len(list)]
    ELSE LET obj == list[i]
             m == AllFilters(fs, heap[obj], 1)
         IN  IF m = "raise" THEN [kind |-> "raise", pos |-> i]
             ELSE IF m = "true" THEN [kind |-> "yield", pos |-> i, obj |-> obj]
             ELSE ScanFrom(heap, list, fs, i + 1)

\* the loop stopping one element short of the end of the list
PassFrom_short(list, i) ==
    IF i >= Len(list) THEN [kind |-> "stop", pos |-> Len(list)]
    ELSE [kind |-> "yield", pos |-> i, obj |-> list[i]]

\* the pass-through loop of query (lines 38-39), resumed at element i
PassFrom(list, i) ==
    IF i > Len(list) THEN [kind |-> "stop", pos |-> Len(list)]
    ELSE [kind |-> "yield", pos |-> i, obj |-> list[i]]

\* one resumption of the body of query: `if filters:` is the truthiness of
\* the collection, that is, whether it is non-empty
Resume(heap, list, fs, pos) ==
    IF Len(fs) > 0 THEN ScanFrom(heap, list, fs, pos + 1)
    ELSE PassFrom(list, pos + 1)

\* a generator object: the filters it was called with, how many elements of
\* the base list its loop has taken, and what it has yielded so far
NoGen == [status |-> "none", filters |-> <<>>, pos |-> 0, out |-> <<>>]
NewGen(fs) == [status |-> "open", filters |-> fs, pos |-> 0, out |-> <<>>]

\* a generator whose loop yields the element it stands before without moving
\* on to the next one
GenStep_noAdvance(heap, list, g) ==
    IF g.status # "open" THEN g
    ELSE LET r == Resume(heap, list, g.filters, g.pos)
         IN  CASE r.kind = "yield" -> [g EXCEPT !.pos = r.pos - 1, !.out = <<r.obj>>]
               [] r.kind = "stop" -> [g EXCEPT !.status = "done", !.pos = r.pos]
               [] r.kind = "raise" -> [g EXCEPT !.status = "raised", !.pos = r.pos]

\* next() on a generator of query: the body runs to its next yield, to the
\* end of the list, or to an exception; a finished generator stays finished
GenStep(heap, list, g) ==
    IF g.status # "open" THEN g
    ELSE LET r == Resume(heap, list, g.filters, g.pos)
         IN  CASE r.kind = "yield" -> [g EXCEPT !.pos = r.pos, !.out = Append(@, r.obj)]
               [] r.kind = "stop" -> [g EXCEPT !.status = "done", !.pos = r.pos]
               [] r.kind = "raise" -> [g EXCEPT !.status = "raised", !.pos = r.pos]

\* list(database.query(filters)): the generator resumed until it finishes
RECURSIVE Drain(_, _, _)
Drain(heap, list, g) ==
    IF g.status # "open" THEN g ELSE Drain(heap, list, GenStep(heap, list, g))

NoRet == [kind |-> "none", call |-> "none", key |-> "", value |-> <<>>]

\* a comprehension that leaves the generator once it has n elements
RECURSIVE ComprehensionOverQuery_stopAtN(_, _, _, _, _)
ComprehensionOverQuery_stopAtN(heap, list, g, n, i) ==
    IF i >= n THEN [list |-> <<>>, gen |-> g]
    ELSE LET g2 == GenStep(heap, list, g)
         IN  IF g2.status # "open"
             THEN [list |-> <<>>, gen |-> g2]
             ELSE LET x == g2.out[Len(g2.out)]
                      rest == ComprehensionOverQuery_stopAtN(heap, list, g2, n, i + 1)
                  IN  [list |-> <<x>> \o rest.list, gen |-> rest.gen]

\* [x for i, x in enumerate(iterator) if i < n] of limit when the iterator is
\* a generator of query: enumerate calls next() on it until the generator
\* ends, whatever i has become; the element is kept when i < n
RECURSIVE ComprehensionOverQuery(_, _, _, _, _)
ComprehensionOverQuery(heap, list, g, n, i) ==
    LET g2 == GenStep(heap, list, g)
    IN  IF g2.status # "open"
        THEN [list |-> <<>>, gen |-> g2]
        ELSE LET x == g2.out[Len(g2.out)]
                 rest == ComprehensionOverQuery(heap, list, g2, n, i + 1)
             IN  [list |-> (IF i < n THEN <<x>> ELSE <<>>) \o rest.list, gen |-> rest.gen]

\* limit(results, n) on a generator of query: the generator itself, not
\* resumed, when n is 0 or None, else the list of the comprehension
limit_results(heap, list, g, n) ==
    IF IsNone(n) \/ Val(n) = 0
    THEN [kind |-> "iterator", list |-> <<>>, gen |-> g]
    ELSE LET c == ComprehensionOverQuery(heap, list, g, Val(n), 0)
         IN  [kind |-> "list", list |-> c.list, gen |-> c.gen]

----------------------------------------------------------------------------
(* The loader: extract.py, helpers.cd_to_datetime *)

Digits == {"0", "1", "2", "3", "4", "5", "6", "7", "8", "9"}

IsDecimal(str) == Len(str) > 0 /\ \A k \in 1..Len(str) : str[k] \in Digits

DigitOf(c) == CHOOSE n \in 0..9 : DigitChar(n) = c

RECURSIVE Decimal(_)
Decimal(str) ==
    IF Len(str) = 0 THEN 0
    ELSE 10 * Decimal(SubSeq(str, 1, Len(str) - 1)) + DigitOf(str[Len(str)])

\* int(str) of a CSV cell: the number written, with an optional sign, or a
\* ValueError.  (The cells of the inputs hold no blanks and no underscores.)
int(str) ==
    IF IsDecimal(str) THEN [raised |-> FALSE, value |-> Decimal(str)]
    ELSE IF Len(str) > 1 /\ str[1] \in {"-", "+"} /\ IsDecimal(Tail(str))
         THEN [raised |-> FALSE,
               value |-> IF str[1] = "-" THEN 0 - Decimal(Tail(str)) ELSE Decimal(Tail(str))]
         ELSE [raised |-> TRUE, value |-> 0]

\* a coercion that turns a cell that is no number into 0
Coerce_lenient(cell) ==
    IF Len(cell) > 0 /\ ~int(cell).raised THEN int(cell) ELSE [raised |-> FALSE, value |-> 0]

\* load_cdc_data, lines 22-34: int(line[c]) if line[c] else 0
Coerce(cell) ==
    IF Len(cell) > 0 THEN int(cell) ELSE [raised |-> FALSE, value |-> 0]

\* the fields of a string between the "-" signs
RECURSIVE Split(_, _)
Split(str, cur) ==
    IF Len(str) = 0 THEN <<cur>>
    ELSE IF Head(str) = "-" THEN <<cur>> \o Split(Tail(str), <<>>)
         ELSE Split(Tail(str), Append(cur, Head(str)))

DaysIn(y, m) ==
    IF m \in {4, 6, 9, 11} THEN 30
    ELSE IF m # 2 THEN 31
         ELSE IF y % 4 = 0 /\ (y % 100 # 0 \/ y % 400 = 0) THEN 29 ELSE 28

\* helpers.cd_to_datetime: strptime(calendar_date, "%Y-%m-%d").  %Y is four
\* digits, %m and %d are one or two digits; the result is midnight of that
\* day, or a ValueError when the text is no such date.
cd_to_datetime(str) ==
    LET p == Split(str, <<>>)
        wellFormed ==
            /\ Len(p) = 3
            /\ IsDecimal(p[1]) /\ Len(p[1]) = 4
            /\ IsDecimal(p[2]) /\ Len(p[2]) <= 2
            /\ IsDecimal(p[3]) /\ Len(p[3]) <= 2
            /\ Decimal(p[1]) >= 1
            /\ Decimal(p[2]) \in 1..12
            /\ Decimal(p[3]) \in 1..DaysIn(Decimal(p[1]), Decimal(p[2]))
    IN  IF wellFormed
        THEN [raised |-> FALSE,
              value |-> DateTime(Decimal(p[1]), Decimal(p[2]), Decimal(p[3]), 0)]
        ELSE [raised |-> TRUE, value |-> DateTime(0, 0, 0, 0)]

\* the numeric columns of a row that the records keep, in the order of the
\* conversions
NumericColumns ==
    <<"death", "hospitalizedCumulative", "hospitalizedCurrently", "inIcuCurrently",
      "onVentilatorCumulative", "onVentilatorCurrently">>

\* the loop of load_cdc_data from row i on; list holds the attribute records
\* of the objects appended so far.  The conversions of lines 22-34 are
\* outside the try block: a ValueError of int() leaves load_cdc_data, which
\* then returns nothing.  The constructor call is inside the try block: when
\* cd_to_datetime raises, the exception is printed and the row is skipped.
RECURSIVE LoadLoop(_, _, _)
LoadLoop(rows, i, list) ==
    IF i > Len(rows) THEN [raised |-> FALSE, list |-> list]
    ELSE LET line == rows[i]
             c == [k \in 1..Len(NumericColumns) |-> Coerce(line[NumericColumns[k]])]
             d == cd_to_datetime(line.date)
         IN  IF \E k \in 1..Len(NumericColumns) : c[k].raised
             THEN [raised |-> TRUE, list |-> <<>>]
             ELSE IF d.raised
                  THEN LoadLoop(rows, i + 1, list)
                  ELSE LoadLoop(rows, i + 1,
                           Append(list,
                               [date |-> d.value, state |-> line.state,
                                hospitalizedCurrently |-> c[3].value,
                                inIcuCurrently |-> c[4].value,
                                onVentilatorCurrently |-> c[6].value,
                                death |-> c[1].value,
                                hospitalizedCumulative |-> c[2].value,
                                onVentilatorCumulative |-> c[5].value]))

\* no call of load_cdc_data yet
NoCsv == [status |-> "none", rows |-> <<>>]

----------------------------------------------------------------------------
(* Inputs *)

Rec(dt, st, hosp, icu, vent, death, hcum, vcum) ==
    [date |-> dt, state |-> st, hospitalizedCurrently |-> hosp,
     inIcuCurrently |-> icu, onVentilatorCurrently |-> vent, death |-> death,
     hospitalizedCumulative |-> hcum, onVentilatorCumulative |-> vcum]

\* the rows a base list is drawn from: three calendar days across a year and
\* a month boundary, two of them with a time of day, two states, every
\* counter taking each of the values 0, 1, 2
Fixture ==
    { Rec(DateTime(2020, 12, 31, 0), "CA", 2, 1, 0, 1, 0, 2),
      Rec(DateTime(2021, 1, 2, 0), "CA", 1, 0, 2, 2, 2, 0),
      Rec(DateTime(2021, 1, 2, 13), "NY", 1, 2, 1, 0, 0, 1),
      Rec(DateTime(2021, 2, 1, 0), "NY", 0, 1, 1, 2, 1, 0),
      Rec(DateTime(2021, 1, 2, 0), "NY", 2, 2, 0, 1, 1, 2),
      Rec(DateTime(2021, 2, 1, 23), "CA", 0, 0, 2, 0, 2, 1) }

Heaps == UNION {[1..n -> Fixture] : n \in 0..MaxRecords}

Refs(n) == [i \in 1..n |-> i]

\* create_filters() with no arguments
NoArgs ==
    [date |-> None, start_date |-> None, end_date |-> None, state |-> None,
     hospitalized_min |-> None, hospitalized_max |-> None,
     icu_min |-> None, icu_max |-> None,
     onvent_min |-> None, onvent_max |-> None,
     death_min |-> None, death_max |-> None]

\* the parameters of create_filters, in the order of its signature
FieldOrder ==
    <<"date", "start_date", "end_date", "state",
      "hospitalized_min", "hospitalized_max", "icu_min", "icu_max",
      "onvent_min", "onvent_max", "death_min", "death_max">>

Fields == {FieldOrder[i] : i \in 1..Len(FieldOrder)}

\* the values an argument of create_filters is given, three per parameter:
\* three dates; the empty string, a state of the fixture and an unknown
\* state; the counts 0, 1 and 2
DateArgs == <<Date(2020, 12, 31), Date(2021, 1, 2), Date(2021, 2, 1)>>
StateArgs == <<"", "CA", "ZZ">>
IntArgs == <<0, 1, 2>>

ArgValue(f, n) ==
    IF f \in {"date", "start_date", "end_date"} THEN DateArgs[n]
    ELSE IF f = "state" THEN StateArgs[n]
    ELSE IntArgs[n]

\* the bundle that supplies exactly the parameters of S, parameter f with
\* the v[f]-th of its values
Bundle(S, v) == [f \in Fields |-> IF f \in S THEN Some(ArgValue(f, v[f])) ELSE None]

\* the sets of at most MaxCriteria parameters
CriteriaSets == {S \in SUBSET Fields : Cardinality(S) <= MaxCriteria}

OptDates == {None} \cup {Some(DateArgs[n]) : n \in 1..3}
OptInts == {None} \cup {Some(IntArgs[n]) : n \in 1..3}
OptStates == {None} \cup {Some(StateArgs[n]) : n \in 1..3}

\* the bundles the query command is run with: any combination of the three
\* date criteria, a state, or the two bounds of one counter
CmdBundles ==
    {[NoArgs EXCEPT !.date = d, !.start_date = lo, !.end_date = hi] :
        d \in OptDates, lo \in OptDates, hi \in OptDates}
    \cup {[NoArgs EXCEPT !.state = st] : st \in OptStates}
    \cup {[NoArgs EXCEPT !.hospitalized_min = lo, !.hospitalized_max = hi] :
            lo \in OptInts, hi \in OptInts}
    \cup {[NoArgs EXCEPT !.icu_min = lo, !.icu_max = hi] : lo \in OptInts, hi \in OptInts}
    \cup {[NoArgs EXCEPT !.onvent_min = lo, !.onvent_max = hi] :
            lo \in OptInts, hi \in OptInts}
    \cup {[NoArgs EXCEPT !.death_min = lo, !.death_max = hi] : lo \in OptInts, hi \in OptInts}

\* the predicates a caller of query builds directly
Predicates ==
    {Filter("DateFilter", op, Date(2021, 1, 2)) : op \in {"eq", "ge", "le"}}
    \cup {Filter("DateFilter", "ge", Date(2021, 2, 1))}
    \cup {Filter("StateFilter", "eq", st) : st \in {"CA", "ZZ"}}
    \cup {Filter("HospitalizedFilter", op, 1) : op \in {"ge", "le"}}
    \cup {Filter("IcuFilter", "ge", 2), Filter("OnVentFilter", "le", 0),
          Filter("DeathFilter", "eq", 2)}

\* the collections of predicates query is called with directly
FilterLists ==
    {<<>>} \cup {<<p>> : p \in Predicates} \cup {<<p, q>> : p \in Predicates, q \in Predicates}

\* the keys the index lookups are called with: a well-formed date, the same
\* date without zero padding, a state of the fixture and an unknown state
DateKeys == {datetime_to_str(DateTime(2021, 1, 2, 0)),
             <<"2", "0", "2", "1", "-", "1", "-", "2">>}
StateKeys == {"CA", "ZZ"}

\* the criteria of the queries that accompany the lookups
LookupBundles ==
    {NoArgs}
    \cup {[NoArgs EXCEPT !.state = Some(st)] : st \in StateKeys}
    \cup {[NoArgs EXCEPT !.date = Some(Date(2021, 1, 2))]}

\* the sequences limit is called on: every sequence of at most MaxItems
\* elements, repetitions included
LimitInputs == UNION {[1..k -> 1..MaxItems] : k \in 0..MaxItems}

\* the values of n: None, 0, and every positive n up to one more than the
\* longest sequence
LimitArgs == {None} \cup {Some(k) : k \in 0..(MaxItems + 1)}

\* the states and dates a scan and an index lookup are compared on: the empty
\* string, a state of the fixture, an unknown state; two days of the fixture
AgreeStates == {"", "CA", "ZZ"}
AgreeDates == {Date(2021, 1, 2), Date(2021, 2, 1)}

AgreeBundles ==
    {[NoArgs EXCEPT !.state = Some(st)] : st \in AgreeStates}
    \cup {[NoArgs EXCEPT !.date = Some(d)] : d \in AgreeDates}

\* the date keys of the lookups: each day formatted, and one day written
\* without zero padding
AgreeDateKeys ==
    {datetime_to_str(d) : d \in AgreeDates} \cup {<<"2", "0", "2", "1", "-", "1", "-", "2">>}

\* predicates of the base class, built directly: AttributeFilter(op, value)
BasePredicates == {Filter("AttributeFilter", op, v) : op \in {"eq", "ge", "le"}, v \in 0..1}

\* the collections of predicates of the queries that run side by side: none
\* (the pass-through loop), one predicate, two predicates
ReaderLists ==
    { <<>>,
      <<Filter("StateFilter", "eq", "CA")>>,
      <<Filter("HospitalizedFilter", "ge", 1), Filter("DateFilter", "ge", Date(2021, 1, 2))>> }

\* the base lists the concurrent readers run on: records of three rows of the
\* fixture (two states, two days, one with a time of day)
ReaderHeaps ==
    {h \in Heaps : \A i \in DOMAIN h : h[i].date.year = 2021 /\ h[i].inIcuCurrently <= 1}

\* the keys the concurrent lookups use: for each, some base lists have a
\* bucket and some have none
ReaderDateKey == datetime_to_str(DateTime(2021, 1, 2, 0))
ReaderStateKey == "CA"

\* a row of the CSV file, as csv.DictReader hands it over: every cell a string
Row(date, state, death, hcum, hosp, icu, vcum, vent) ==
    [date |-> date, state |-> state, death |-> death, hospitalizedCumulative |-> hcum,
     hospitalizedCurrently |-> hosp, inIcuCurrently |-> icu,
     onVentilatorCumulative |-> vcum, onVentilatorCurrently |-> vent]

\* the rows a file is made of: a complete row, a row with empty counters, a
\* row whose date is written without zero padding, a row whose date is no
\* date, and a row with a counter that is no integer
RowKinds ==
    { Row(<<"2", "0", "2", "1", "-", "0", "1", "-", "0", "2">>, "CA",
          <<"1", "2">>, <<"3">>, <<"1">>, <<"0">>, <<"2">>, <<"1">>),
      Row(<<"2", "0", "2", "1", "-", "0", "2", "-", "0", "1">>, "NY",
          <<>>, <<>>, <<"2">>, <<>>, <<>>, <<>>),
      Row(<<"2", "0", "2", "1", "-", "1", "-", "2">>, "NY",
          <<"1">>, <<"1">>, <<"1">>, <<"1">>, <<"1">>, <<"1">>),
      Row(<<"2", "0", "2", "1", "-", "1", "3", "-", "0", "1">>, "CA",
          <<"1">>, <<"1">>, <<"1">>, <<"1">>, <<"1">>, <<"1">>),
      Row(<<"2", "0", "2", "1", "-", "0", "1", "-", "0", "3">>, "CA",
          <<"n", "/", "a">>, <<"1">>, <<"1">>, <<"1">>, <<"1">>, <<"1">>) }

\* the base lists of the query subcommand: n records, every k-th of state CA
\* and the others of state NY
PrintLengths == 0..MaxRecords

PrintHeap(n, k) ==
    [i \in 1..n |-> IF i % k = 0
                    THEN Rec(DateTime(2021, 1, 2, 0), "CA", 1, 0, 2, 2, 2, 0)
                    ELSE Rec(DateTime(2021, 2, 1, 0), "NY", 0, 1, 1, 2, 1, 0)]

PrintHeaps == {PrintHeap(n, k) : n \in PrintLengths, k \in 1..3}

\* the criteria of the subcommand: none, a state, a bound on a counter
PrintBundles ==
    {NoArgs, [NoArgs EXCEPT !.state = Some("CA")], [NoArgs EXCEPT !.hospitalized_max = Some(1)]}

\* args.limit: not given, 0, and the lengths of the base lists
PrintLimits == {None} \cup {Some(l) : l \in 0..MaxRecords}

\* the lengths of the base lists of the subcommand when its default limit
\* matters: short lists, and lists around and beyond the default limit
CommandLengths ==
    (0..MaxRecords) \cup {DefaultLimit - 1, DefaultLimit, DefaultLimit + 1, 2 * DefaultLimit + 2}

CommandHeaps == {PrintHeap(n, k) : n \in CommandLengths, k \in 1..2}

\* args.limit: not given, 0, small, the default and beyond
CommandLimits ==
    {None} \cup {Some(l) : l \in (0..MaxRecords) \cup {DefaultLimit, DefaultLimit + 1}}

----------------------------------------------------------------------------
(* State machine *)

Init ==
    /\ objs \in Heaps
    /\ cdcObjs = Refs(Len(objs))
    /\ data_by_date = EmptyDict
    /\ data_by_state = EmptyDict
    /\ constructed = FALSE
    /\ gen = NoGen
    /\ ret = NoRet
    /\ args = NoArgs
    /\ filters = <<>>
    /\ gen2 = NoGen
    /\ lim = NoLimit
    /\ cmd = NoCmd
    /\ csv = NoCsv

\* CDCTrackingDatabase.__init__(cdcObjs)
CDCTrackingDatabase_init ==
    /\ ~constructed
    /\ LET r == InitLoop(objs, cdcObjs, 1, EmptyDict, EmptyDict)
       IN  /\ data_by_date' = r.by_date
           /\ data_by_state' = r.by_state
    /\ constructed' = TRUE
    /\ UNCHANGED <<objs, cdcObjs, gen, ret, args, filters>>
    /\ UNCHANGED more

\* what a lookup hands back: the bucket, or the KeyError it ended with
Returned(call, key, g) ==
    [kind |-> IF g.raised THEN "KeyError" ELSE "list", call |-> call, key |-> key,
     value |-> g.value]

\* CDCTrackingDatabase.get_tracking_data_by_date(date)
get_tracking_data_by_date(date) ==
    /\ constructed
    /\ LET g == DefaultDictGet(data_by_date, date)
       IN  /\ data_by_date' = g.dict
           /\ ret' = Returned("by_date", date, g)
    /\ UNCHANGED <<objs, cdcObjs, data_by_state, constructed, gen, args, filters>>
    /\ UNCHANGED more

\* CDCTrackingDatabase.get_tracking_data_by_state(state)
get_tracking_data_by_state(state) ==
    /\ constructed
    /\ LET g == DefaultDictGet(data_by_state, state)
       IN  /\ data_by_state' = g.dict
           /\ ret' = Returned("by_state", state, g)
    /\ UNCHANGED <<objs, cdcObjs, data_by_date, constructed, gen, args, filters>>
    /\ UNCHANGED more

\* CDCTrackingDatabase.query(filters): calling a generator function only
\* creates the generator; its body runs when the generator is resumed
query(fs) ==
    /\ constructed
    /\ gen' = NewGen(fs)
    /\ UNCHANGED <<objs, cdcObjs, data_by_date, data_by_state, constructed, ret,
                   args, filters>>
    /\ UNCHANGED more

\* next() on the generator the last query call returned
query_next ==
    /\ gen.status = "open"
    /\ gen' = GenStep(objs, cdcObjs, gen)
    /\ UNCHANGED <<objs, cdcObjs, data_by_date, data_by_state, constructed, ret,
                   args, filters>>
    /\ UNCHANGED more

\* filters = create_filters(**criteria)
create_filters_call(a) ==
    /\ args' = a
    /\ filters' = create_filters(a)
    /\ UNCHANGED <<objs, cdcObjs, data_by_date, data_by_state, constructed, gen, ret>>
    /\ UNCHANGED more

\* main.query, lines 171-180: filters = create_filters(...);
\* results = database.query(filters)
main_query(a) ==
    /\ constructed
    /\ args' = a
    /\ filters' = create_filters(a)
    /\ gen' = NewGen(filters')
    /\ UNCHANGED <<objs, cdcObjs, data_by_date, data_by_state, constructed, ret>>
    /\ UNCHANGED more

\* a run of the program issues one query (main.py runs one subcommand per
\* process): the scenarios below start a query only when none was started
FirstQuery == gen.status = "none"

\* the database with its index lookups and the query that goes with them
Next ==
    \/ CDCTrackingDatabase_init
    \/ \E k \in DateKeys : get_tracking_data_by_date(k)
    \/ \E k \in StateKeys : get_tracking_data_by_state(k)
    \/ FirstQuery /\ \E a \in LookupBundles : main_query(a)
    \/ query_next

Spec == Init /\ [][Next]_vars

\* query called with predicates built by the caller
NextQuery ==
    \/ CDCTrackingDatabase_init
    \/ FirstQuery /\ \E fs \in FilterLists : query(fs)
    \/ query_next

SpecQuery == Init /\ [][NextQuery]_vars

\* query called with the predicates create_filters builds from a bundle
NextCmd ==
    \/ CDCTrackingDatabase_init
    \/ FirstQuery /\ \E a \in CmdBundles : main_query(a)
    \/ query_next

SpecCmd == Init /\ [][NextCmd]_vars

\* create_filters alone, on every bundle of at most MaxCriteria arguments
InitFilters ==
    /\ objs = <<>>
    /\ cdcObjs = <<>>
    /\ data_by_date = EmptyDict
    /\ data_by_state = EmptyDict
    /\ constructed = FALSE
    /\ gen = NoGen
    /\ ret = NoRet
    /\ args = NoArgs
    /\ filters = <<>>
    /\ gen2 = NoGen
    /\ lim = NoLimit
    /\ cmd = NoCmd
    /\ csv = NoCsv

\* the scenario calls create_filters once
FirstCall == args = NoArgs /\ filters = <<>>

NextFilters ==
    FirstCall /\ \E S \in CriteriaSets : \E v \in [S -> 1..3] :
                    create_filters_call(Bundle(S, v))

SpecFilters == InitFilters /\ [][NextFilters]_vars

\* result = limit(iter(s), n)
limit_call(s, n) ==
    /\ LET r == limit(Iter(s, 0), n)
       IN  lim' = [status |-> "returned", n |-> n, before |-> Iter(s, 0),
                   kind |-> r.kind, list |-> r.list, after |-> r.it]
    /\ UNCHANGED <<objs, cdcObjs, data_by_date, data_by_state, constructed, gen, ret,
                   args, filters, gen2, cmd, csv>>

\* the scenario calls limit once
FirstLimit == lim.status = "none"

\* limit alone, on every sequence of at most MaxItems elements
NextLimit ==
    FirstLimit /\ \E s \in LimitInputs : \E n \in LimitArgs : limit_call(s, n)

SpecLimit == InitFilters /\ [][NextLimit]_vars

\* the scenario makes one index lookup
FirstLookup == ret.kind = "none"

\* one query by a single state or date criterion and one index lookup, in
\* either order
NextAgree ==
    \/ CDCTrackingDatabase_init
    \/ FirstLookup /\ \E key \in AgreeDateKeys : get_tracking_data_by_date(key)
    \/ FirstLookup /\ \E key \in AgreeStates : get_tracking_data_by_state(key)
    \/ FirstQuery /\ \E a \in AgreeBundles : main_query(a)
    \/ query_next

SpecAgree == Init /\ [][NextAgree]_vars

\* f(covid_data), AttributeFilter.__call__: self.get raises for the base
\* class, else the comparison is returned.  origin tells where f came from.
filter_invoke(f, covid_data, origin) ==
    /\ ret' = IF GetRaises(f.cls)
              THEN [kind |-> "UnsupportedCriterionError", call |-> origin, key |-> f.cls,
                    value |-> <<>>]
              ELSE [kind |-> "bool", call |-> origin, key |-> f.cls,
                    value |-> <<Call(f, covid_data)>>]
    /\ UNCHANGED <<objs, cdcObjs, data_by_date, data_by_state, constructed, gen, args,
                   filters, gen2, lim, cmd, csv>>

\* create_filters on a bundle of the query command, then predicates invoked
\* on records one at a time: those of the list built, and base predicates
NextInvoke ==
    \/ FirstCall /\ \E a \in CmdBundles : create_filters_call(a)
    \/ \E i \in 1..Len(filters) : \E r \in Fixture :
          filter_invoke(filters[i], r, "built_predicate")
    \/ \E f \in BasePredicates : \E r \in Fixture : filter_invoke(f, r, "base_predicate")

SpecInvoke == InitFilters /\ [][NextInvoke]_vars

\* a query call that resumes where the earlier generator stands
query_second_resuming(fs) ==
    /\ constructed
    /\ gen2' = [NewGen(fs) EXCEPT !.pos = gen.pos]
    /\ UNCHANGED <<objs, cdcObjs, data_by_date, data_by_state, constructed, gen, ret,
                   args, filters, lim, cmd, csv>>

\* another call of CDCTrackingDatabase.query(filters) on the same database,
\* whose generator is kept next to the first one
query_second(fs) ==
    /\ constructed
    /\ gen2' = NewGen(fs)
    /\ UNCHANGED <<objs, cdcObjs, data_by_date, data_by_state, constructed, gen, ret,
                   args, filters, lim, cmd, csv>>

\* next() on the second generator when the two generators draw from one
\* shared position in the base list
query_next_second_shared ==
    /\ gen2.status = "open"
    /\ gen2' = GenStep(objs, cdcObjs,
                       [gen2 EXCEPT !.pos = IF gen.pos > @ THEN gen.pos ELSE @])
    /\ UNCHANGED <<objs, cdcObjs, data_by_date, data_by_state, constructed, gen, ret,
                   args, filters, lim, cmd, csv>>

\* next() on the second generator
query_next_second ==
    /\ gen2.status = "open"
    /\ gen2' = GenStep(objs, cdcObjs, gen2)
    /\ UNCHANGED <<objs, cdcObjs, data_by_date, data_by_state, constructed, gen, ret,
                   args, filters, lim, cmd, csv>>

\* query called again and again, each generator resumed or abandoned at any
\* point
NextRestart ==
    \/ CDCTrackingDatabase_init
    \/ \E fs \in ReaderLists : query(fs)
    \/ \E fs \in ReaderLists : query_second(fs)
    \/ query_next
    \/ query_next_second

SpecRestart == Init /\ [][NextRestart]_vars

InitReaders ==
    /\ objs \in ReaderHeaps
    /\ cdcObjs = Refs(Len(objs))
    /\ data_by_date = EmptyDict
    /\ data_by_state = EmptyDict
    /\ constructed = FALSE
    /\ gen = NoGen
    /\ ret = NoRet
    /\ args = NoArgs
    /\ filters = <<>>
    /\ gen2 = NoGen
    /\ lim = NoLimit
    /\ cmd = NoCmd
    /\ csv = NoCsv

\* two readers, each with its own generator, and index lookups, their steps
\* interleaved in any order; no step writes the base list
NextReaders ==
    \/ CDCTrackingDatabase_init
    \/ FirstQuery /\ \E fs \in ReaderLists : query(fs)
    \/ query_next
    \/ gen2.status = "none" /\ \E fs \in ReaderLists : query_second(fs)
    \/ query_next_second
    \/ get_tracking_data_by_date(ReaderDateKey)
    \/ get_tracking_data_by_state(ReaderStateKey)

SpecReaders == InitReaders /\ [][NextReaders]_vars

\* load_cdc_data(path) on a file with the given rows: the list of objects it
\* returns becomes the base list, or the ValueError it ends with is recorded
load_cdc_data(rows) ==
    /\ LET r == LoadLoop(rows, 1, <<>>)
       IN  /\ csv' = [status |-> IF r.raised THEN "ValueError" ELSE "returned",
                      rows |-> rows]
           /\ objs' = r.list
           /\ cdcObjs' = Refs(Len(r.list))
    /\ UNCHANGED <<data_by_date, data_by_state, constructed, gen, ret, args, filters,
                   gen2, lim, cmd>>

\* the scenario loads one file
FirstLoad == csv.status = "none"

\* main, line 192: the database is constructed from what load_cdc_data
\* returned
NextLoad ==
    \/ FirstLoad /\ \E n \in 0..MaxRows : \E rows \in [1..n -> RowKinds] : load_cdc_data(rows)
    \/ csv.status = "returned" /\ CDCTrackingDatabase_init

SpecLoad == InitFilters /\ [][NextLoad]_vars

InitPrint ==
    /\ objs \in PrintHeaps
    /\ cdcObjs = Refs(Len(objs))
    /\ data_by_date = EmptyDict
    /\ data_by_state = EmptyDict
    /\ constructed = FALSE
    /\ gen = NoGen
    /\ ret = NoRet
    /\ args = NoArgs
    /\ filters = <<>>
    /\ gen2 = NoGen
    /\ lim = NoLimit
    /\ cmd = NoCmd
    /\ csv = NoCsv

\* main.query(database, args) as a whole: the filters are built, the
\* generator is created, limit(results, args.limit or 50) takes what the
\* generator yields, and the for loop prints what limit returned.  The
\* generator is the iterator limit works on: it ends exhausted when limit
\* builds a list, and when limit returns it the for loop runs it to its end.
main_query_command(a, l) ==
    /\ constructed
    /\ args' = a
    /\ filters' = create_filters(a)
    /\ LET results == Drain(objs, cdcObjs, NewGen(filters'))
           n == LimitOrDefault(l)
           r == limit(Iter(results.out, 0), n)
       IN  /\ gen' = results
           /\ lim' = [status |-> "returned", n |-> n, before |-> Iter(results.out, 0),
                      kind |-> r.kind, list |-> r.list,
                      after |-> Iter(results.out, Len(results.out))]
           /\ cmd' = [status |-> "done", limit |-> l,
                      printed |-> IF r.kind = "list" THEN r.list ELSE results.out]
    /\ UNCHANGED <<objs, cdcObjs, data_by_date, data_by_state, constructed, ret, gen2, csv>>

\* the scenario runs the subcommand once
FirstCommand == cmd.status = "none"

NextPrint ==
    \/ CDCTrackingDatabase_init
    \/ FirstCommand /\ \E a \in PrintBundles : \E l \in PrintLimits : main_query_command(a, l)

SpecPrint == InitPrint /\ [][NextPrint]_vars

\* the consumer of a generator goes on calling next() until the generator is
\* exhausted (list(...), the comprehension of limit, the for loop of
\* main.query), and the database is constructed before anything is asked
SpecQueryFair ==
    /\ InitReaders
    /\ [][NextQuery]_vars
    /\ WF_vars(query_next)
    /\ WF_vars(CDCTrackingDatabase_init)

\* results = database.query(filters); limit(results, n): main.py lines 180
\* and 183 with any n
query_limit(fs, n) ==
    /\ constructed
    /\ LET r == limit_results(objs, cdcObjs, NewGen(fs), n)
       IN  /\ gen' = r.gen
           /\ lim' = [status |-> "returned", n |-> n, before |-> Iter(<<>>, 0),
                      kind |-> r.kind, list |-> r.list, after |-> Iter(<<>>, 0)]
    /\ UNCHANGED <<objs, cdcObjs, data_by_date, data_by_state, constructed, ret, args,
                   filters, gen2, cmd, csv>>

\* limit called once on the generator of a query; when limit returned the
\* generator, its consumer may resume it
NextLimitQuery ==
    \/ CDCTrackingDatabase_init
    \/ FirstLimit /\ \E fs \in ReaderLists : \E n \in LimitArgs : query_limit(fs, n)
    \/ query_next

SpecLimitQuery == Init /\ [][NextLimitQuery]_vars

\* the indexes __init__ leaves: one bucket per date key (per state) of the
\* base list, holding the objects of that key in base order
DateKeyOf(rec) == datetime_to_str(rec.date)
StateKeyOf(rec) == rec.state

DateIndex ==
    [k \in {DateKeyOf(objs[cdcObjs[i]]) : i \in 1..Len(cdcObjs)} |->
        SelectSeq(cdcObjs, LAMBDA r : DateKeyOf(objs[r]) = k)]

StateIndex ==
    [k \in {StateKeyOf(objs[cdcObjs[i]]) : i \in 1..Len(cdcObjs)} |->
        SelectSeq(cdcObjs, LAMBDA r : StateKeyOf(objs[r]) = k)]

\* the program when main has constructed the database (main.py line 192) and
\* is about to run the subcommand
InitCommand ==
    /\ objs \in CommandHeaps
    /\ cdcObjs = Refs(Len(objs))
    /\ data_by_date = DateIndex
    /\ data_by_state = StateIndex
    /\ constructed = TRUE
    /\ gen = NoGen
    /\ ret = NoRet
    /\ args = NoArgs
    /\ filters = <<>>
    /\ gen2 = NoGen
    /\ lim = NoLimit
    /\ cmd = NoCmd
    /\ csv = NoCsv

NextCommand ==
    FirstCommand /\ \E a \in PrintBundles : \E l \in CommandLimits : main_query_command(a, l)

SpecCommand == InitCommand /\ [][NextCommand]_vars

----------------------------------------------------------------------------
(* Claims *)

\* the objects a generator has yielded
Emitted(g) == {g.out[k] : k \in 1..Len(g.out)}

\* the objects among the first n of the base list on which every predicate
\* of fs is true
Accepted(fs, n) ==
    {cdcObjs[i] : i \in {i \in 1..n : \A j \in 1..Len(fs) : Call(fs[j], objs[cdcObjs[i]])}}

\* s is a subsequence of t: s[i..] can be matched, in order, in t[j..]
RECURSIVE SubseqFrom(_, _, _, _)
SubseqFrom(s, t, i, j) ==
    IF i > Len(s) THEN TRUE
    ELSE IF j > Len(t) THEN FALSE
    ELSE IF s[i] = t[j] THEN SubseqFrom(s, t, i + 1, j + 1)
    ELSE SubseqFrom(s, t, i, j + 1)

IsSubsequence(s, t) == SubseqFrom(s, t, 1, 1)

\* C1: query(P) emits a record exactly when every predicate of P is true on
\* it: at every point of the scan the records emitted are the scanned
\* records that every predicate accepts, a finished scan has scanned the
\* whole base list, and query([P2, P1]) emits the same set as query([P1, P2]).
C1_Conjunction ==
    gen.status \in {"open", "done"} =>
        /\ Emitted(gen) = Accepted(gen.filters, gen.pos)
        /\ gen.status = "done" => gen.pos = Len(cdcObjs)
        /\ (gen.status = "done" /\ Len(gen.filters) = 2) =>
              Emitted(Drain(objs, cdcObjs,
                            NewGen(<<gen.filters[2], gen.filters[1]>>))) = Emitted(gen)

\* a finished query with two predicates on different attributes, where one
\* record passes both, one passes only the first and one only the second
C1_Witness ==
    /\ gen.status = "done"
    /\ Len(gen.filters) = 2
    /\ gen.filters[1].cls # gen.filters[2].cls
    /\ Emitted(gen) # {}
    /\ \E i \in 1..Len(cdcObjs) :
          Call(gen.filters[1], objs[cdcObjs[i]]) /\ ~Call(gen.filters[2], objs[cdcObjs[i]])
    /\ \E i \in 1..Len(cdcObjs) :
          ~Call(gen.filters[1], objs[cdcObjs[i]]) /\ Call(gen.filters[2], objs[cdcObjs[i]])

\* C2: query with an empty collection of predicates, create_filters() with
\* no arguments included, produces exactly the base list, in load order.
C2_EmptyIsIdentity ==
    /\ (gen.status # "none" /\ args = NoArgs) => Len(gen.filters) = 0
    /\ (gen.status = "done" /\ Len(gen.filters) = 0) => gen.out = cdcObjs

\* a finished query with create_filters() on a base list of three records
C2_Witness ==
    /\ gen.status = "done"
    /\ args = NoArgs
    /\ Len(gen.filters) = 0
    /\ Len(cdcObjs) = 3
    /\ Len(gen.out) = 3

\* C3: whatever the predicates, the stream query produces is an
\* order-preserving subsequence of the base list: two emitted records come
\* out in their load order, and none comes out more often than it occurs.
C3_OrderedSubsequence ==
    /\ IsSubsequence(gen.out, cdcObjs)
    /\ \A k \in 1..Len(gen.out) : \A l \in 1..Len(gen.out) :
          k < l => \E i \in 1..Len(cdcObjs) : \E j \in 1..Len(cdcObjs) :
                      i < j /\ cdcObjs[i] = gen.out[k] /\ cdcObjs[j] = gen.out[l]
    /\ \A r \in Emitted(gen) :
          Cardinality({k \in 1..Len(gen.out) : gen.out[k] = r})
              <= Cardinality({i \in 1..Len(cdcObjs) : cdcObjs[i] = r})

\* a finished filtered query that emitted the first and the third record of
\* the base list and rejected the second
C3_Witness ==
    /\ gen.status = "done"
    /\ Len(gen.filters) > 0
    /\ Len(cdcObjs) = 3
    /\ gen.out = <<cdcObjs[1], cdcObjs[3]>>

\* the objects a list holds
Elems(list) == {list[i] : i \in 1..Len(list)}

\* the indexes as __init__ leaves them
BuiltIndexes == InitLoop(objs, cdcObjs, 1, EmptyDict, EmptyDict)

\* C4: no call mutates the database: after any sequence of lookups (of
\* present or missing keys) and queries, by_date and by_state have the key
\* set and the buckets they had right after construction.
C4_IndexesNeverMutated ==
    constructed =>
        /\ data_by_date = BuiltIndexes.by_date
        /\ data_by_state = BuiltIndexes.by_state

\* the records whose date is formatted as the key / whose state is the key
HasDateKey(key) == \E i \in 1..Len(cdcObjs) : datetime_to_str(objs[cdcObjs[i]].date) = key
HasState(key) == \E i \in 1..Len(cdcObjs) : objs[cdcObjs[i]].state = key

\* C5: the two lookups are total: none ever raises, and for a key no record
\* matches each returns the empty sequence.
C5_LookupsTotal ==
    /\ ret.kind # "KeyError"
    /\ (ret.call = "by_date" /\ ~HasDateKey(ret.key)) => (ret.kind = "list" /\ ret.value = <<>>)
    /\ (ret.call = "by_state" /\ ~HasState(ret.key)) => (ret.kind = "list" /\ ret.value = <<>>)

\* a lookup of an unknown state on a database of three records, made after
\* an earlier lookup missed in the date index
C5_Witness ==
    /\ Len(cdcObjs) = 3
    /\ ret.call = "by_state"
    /\ ~HasState(ret.key)
    /\ ret.value = <<>>
    /\ \E k \in DOMAIN data_by_date : ~HasDateKey(k)

\* the number a string of decimal digits denotes
DigitValue(c) ==
    CASE c = "0" -> 0 [] c = "1" -> 1 [] c = "2" -> 2 [] c = "3" -> 3 [] c = "4" -> 4
      [] c = "5" -> 5 [] c = "6" -> 6 [] c = "7" -> 7 [] c = "8" -> 8 [] c = "9" -> 9

RECURSIVE NumberOf(_)
NumberOf(str) ==
    IF Len(str) = 0 THEN 0
    ELSE 10 * NumberOf(SubSeq(str, 1, Len(str) - 1)) + DigitValue(str[Len(str)])

\* key is the date of dt written YYYY-MM-DD
IsYMD(key, dt) ==
    /\ Len(key) = 10
    /\ key[5] = "-"
    /\ key[8] = "-"
    /\ NumberOf(SubSeq(key, 1, 4)) = dt.year
    /\ NumberOf(SubSeq(key, 6, 7)) = dt.month
    /\ NumberOf(SubSeq(key, 9, 10)) = dt.day

\* how often an object occurs in a list
Count(list, r) == Cardinality({i \in 1..Len(list) : list[i] = r})

\* C6: once the database is constructed, every record of the base list is
\* in exactly one bucket of by_date, the one keyed by its date written
\* YYYY-MM-DD, and in exactly one bucket of by_state, the one keyed by its
\* state, and no bucket holds anything that is not in the base list.
C6_IndexPartition ==
    constructed =>
        /\ \A r \in Elems(cdcObjs) :
              /\ \E k \in DOMAIN data_by_date :
                    /\ IsYMD(k, objs[r].date)
                    /\ Count(data_by_date[k], r) = Count(cdcObjs, r)
                    /\ \A k2 \in DOMAIN data_by_date :
                          r \in Elems(data_by_date[k2]) => k2 = k
              /\ objs[r].state \in DOMAIN data_by_state
              /\ Count(data_by_state[objs[r].state], r) = Count(cdcObjs, r)
              /\ \A k2 \in DOMAIN data_by_state :
                    r \in Elems(data_by_state[k2]) => k2 = objs[r].state
        /\ \A k \in DOMAIN data_by_date : Elems(data_by_date[k]) \subseteq Elems(cdcObjs)
        /\ \A k \in DOMAIN data_by_state : Elems(data_by_state[k]) \subseteq Elems(cdcObjs)

\* a database of three records, two of them on one day at different times
\* of day and a third on another day, in two states
C6_Witness ==
    /\ constructed
    /\ Len(cdcObjs) = 3
    /\ \E k \in DOMAIN data_by_date :
          /\ Len(data_by_date[k]) = 2
          /\ objs[data_by_date[k][1]].date.hour # objs[data_by_date[k][2]].date.hour
    /\ \E k \in DOMAIN data_by_date : Len(data_by_date[k]) = 1
    /\ \E k \in DOMAIN data_by_state : Len(data_by_state[k]) = 2

\* a criterion is present when it is supplied and is not the falsy sentinel
\* of its type (0 for a counter bound, the empty string for a state)
Present(a, f) ==
    /\ ~IsNone(a[f])
    /\ f = "state" => Val(a[f]) # ""
    /\ f \notin {"date", "start_date", "end_date", "state"} => Val(a[f]) # 0

\* the predicate variant and operator the specification gives each criterion
VariantOf(f) ==
    CASE f \in {"date", "start_date", "end_date"} -> "DateFilter"
      [] f = "state" -> "StateFilter"
      [] f \in {"hospitalized_min", "hospitalized_max"} -> "HospitalizedFilter"
      [] f \in {"icu_min", "icu_max"} -> "IcuFilter"
      [] f \in {"onvent_min", "onvent_max"} -> "OnVentFilter"
      [] f \in {"death_min", "death_max"} -> "DeathFilter"

OperatorOf(f) ==
    CASE f \in {"date", "state"} -> "eq"
      [] f \in {"start_date", "hospitalized_min", "icu_min", "onvent_min", "death_min"} -> "ge"
      [] f \in {"end_date", "hospitalized_max", "icu_max", "onvent_max", "death_max"} -> "le"

\* one predicate per present criterion, from criterion i of the list on
RECURSIVE ExpectedFrom(_, _)
ExpectedFrom(a, i) ==
    IF i > Len(FieldOrder) THEN <<>>
    ELSE LET f == FieldOrder[i]
         IN  (IF Present(a, f)
              THEN <<[cls |-> VariantOf(f), op |-> OperatorOf(f), value |-> Val(a[f])]>>
              ELSE <<>>) \o ExpectedFrom(a, i + 1)

\* two lists of predicates are the same, predicate by predicate
SameFilters(s, t) ==
    /\ Len(s) = Len(t)
    /\ \A i \in 1..Len(s) :
          /\ s[i].cls = t[i].cls
          /\ s[i].op = t[i].op
          /\ s[i].value = t[i].value

\* C7: create_filters returns one predicate per present criterion and none
\* for an absent one, of the variant and operator of the criterion, with the
\* supplied value as reference value, in the order of the parameter list.
C7_FactoryMapping ==
    SameFilters(filters, ExpectedFrom(args, 1))

\* a call that supplied MaxCriteria criteria of different variants, all
\* present, the last of them an upper bound
C7_Witness ==
    /\ Len(filters) = MaxCriteria
    /\ Len(filters) >= 2
    /\ filters[1].cls # filters[Len(filters)].cls
    /\ filters[Len(filters)].op = "le"

\* the criteria of a bundle that are supplied with a falsy value
FalsySupplied(a) ==
    {f \in {FieldOrder[i] : i \in 1..Len(FieldOrder)} : ~IsNone(a[f]) /\ ~Present(a, f)}

CounterOf(f, rec) ==
    CASE f = "hospitalized" -> rec.hospitalizedCurrently
      [] f = "icu" -> rec.inIcuCurrently
      [] f = "onvent" -> rec.onVentilatorCurrently
      [] f = "death" -> rec.death

\* the bounds of counter f in bundle a
MinOf(a, f) ==
    CASE f = "hospitalized" -> a.hospitalized_min
      [] f = "icu" -> a.icu_min
      [] f = "onvent" -> a.onvent_min
      [] f = "death" -> a.death_min

MaxOf(a, f) ==
    CASE f = "hospitalized" -> a.hospitalized_max
      [] f = "icu" -> a.icu_max
      [] f = "onvent" -> a.onvent_max
      [] f = "death" -> a.death_max

Counters == {"hospitalized", "icu", "onvent", "death"}

\* a calendar date as the number YYYYMMDD, which orders dates as the
\* calendar does
DayNumber(d) == d.year * 10000 + d.month * 100 + d.day

\* C9: ranges are inclusive at both ends: with X_min = X_max = v, v not 0,
\* every record whose counter X equals v is emitted, and with a date range
\* (and no date criterion) a record dated exactly start_date, or exactly
\* end_date, is emitted when it also meets the other end of the range.
C9_InclusiveRanges ==
    gen.status = "done" =>
        /\ \A f \in Counters :
              (Present(args, f \o "_min") /\ MinOf(args, f) = MaxOf(args, f)) =>
                  \A i \in 1..Len(cdcObjs) :
                      CounterOf(f, objs[cdcObjs[i]]) = Val(MinOf(args, f))
                          => cdcObjs[i] \in Emitted(gen)
        /\ IsNone(args.date) =>
              \A i \in 1..Len(cdcObjs) :
                  LET dt == objs[cdcObjs[i]].date
                      day == [year |-> dt.year, month |-> dt.month, day |-> dt.day]
                  IN  /\ (/\ ~IsNone(args.start_date)
                          /\ day = Val(args.start_date)
                          /\ IsNone(args.end_date) \/ DayNumber(day) <= DayNumber(Val(args.end_date)))
                            => cdcObjs[i] \in Emitted(gen)
                      /\ (/\ ~IsNone(args.end_date)
                          /\ day = Val(args.end_date)
                          /\ IsNone(args.start_date) \/ DayNumber(Val(args.start_date)) <= DayNumber(day))
                            => cdcObjs[i] \in Emitted(gen)

\* a finished query with icu_min = icu_max = 2 on a base list where one
\* record has inIcuCurrently 2 and is emitted, one has less and one has more
C9_Witness ==
    /\ gen.status = "done"
    /\ args = [NoArgs EXCEPT !.icu_min = Some(2), !.icu_max = Some(2)]
    /\ \E r \in Emitted(gen) : objs[r].inIcuCurrently = 2
    /\ \E i \in 1..Len(cdcObjs) : objs[cdcObjs[i]].inIcuCurrently < 2
    /\ Len(gen.out) < Len(cdcObjs)

\* the bundle sets a lower bound strictly above the upper bound of the same
\* attribute, both bounds present
Contradictory(a) ==
    \/ /\ ~IsNone(a.start_date)
       /\ ~IsNone(a.end_date)
       /\ DayNumber(Val(a.end_date)) < DayNumber(Val(a.start_date))
    \/ \E f \in Counters :
          /\ Present(a, f \o "_min")
          /\ Present(a, f \o "_max")
          /\ Val(MinOf(a, f)) > Val(MaxOf(a, f))

\* C10: contradictory bounds (start_date after end_date, or X_min above
\* X_max, both non-zero) give an empty result and no error: the query never
\* raises, emits nothing, and finishes with the empty sequence.
C10_ContradictoryIsEmpty ==
    (gen.status # "none" /\ Contradictory(args)) =>
        /\ gen.status # "raised"
        /\ gen.out = <<>>

\* a finished query with start_date after end_date on a base list of three
\* records, one of which meets the lower bound and one the upper bound
C10_Witness ==
    /\ gen.status = "done"
    /\ Len(cdcObjs) = 3
    /\ ~IsNone(args.start_date)
    /\ ~IsNone(args.end_date)
    /\ IsNone(args.date)
    /\ DayNumber(Val(args.end_date)) < DayNumber(Val(args.start_date))
    /\ \E i \in 1..Len(cdcObjs) :
          DayNumber(Val(args.start_date)) <= DayNumber(objs[cdcObjs[i]].date)
    /\ \E i \in 1..Len(cdcObjs) :
          DayNumber(objs[cdcObjs[i]].date) <= DayNumber(Val(args.end_date))
    /\ gen.out = <<>>

\* the first k elements of a sequence, or all of it when it is shorter
FirstOf(s, k) == [i \in 1..(IF k < Len(s) THEN k ELSE Len(s)) |-> s[i]]

\* C11: for every sequence s and positive n, limit(s, n) returns the first
\* min(n, length of s) elements of s in their order, also when n is larger
\* than the length of s
C11_LimitPrefix ==
    (lim.status = "returned" /\ ~IsNone(lim.n) /\ Val(lim.n) > 0)
        => /\ lim.kind = "list"
           /\ lim.list = FirstOf(lim.before.items, Val(lim.n))

\* limit has cut a sequence of two or more distinct elements
C11_Witness ==
    /\ lim.status = "returned"
    /\ lim.n = Some(2)
    /\ Len(lim.before.items) = 3
    /\ lim.before.items[1] # lim.before.items[2]
    /\ Len(lim.list) = 2

\* C12: limit(s, 0) and limit(s, None) return s itself: the same elements in
\* the same order, none taken from s
C12_NoLimitIsIdentity ==
    (lim.status = "returned" /\ (IsNone(lim.n) \/ Val(lim.n) = 0))
        => /\ lim.kind = "iterator"
           /\ lim.after = lim.before
           /\ lim.after.pos = 0

\* limit was called with 0 on a sequence of several elements
C12_Witness ==
    /\ lim.status = "returned"
    /\ lim.n = Some(0)
    /\ Len(lim.before.items) >= 2
    /\ lim.kind = "iterator"

\* a finished query by the state st alone, and a lookup of the same state
ScannedAndLookedUpState(st) ==
    /\ gen.status = "done"
    /\ args = [NoArgs EXCEPT !.state = Some(st)]
    /\ ret.call = "by_state"
    /\ ret.key = st

\* a finished query by the date d alone, and a lookup of d written YYYY-MM-DD
ScannedAndLookedUpDate(d) ==
    /\ gen.status = "done"
    /\ args = [NoArgs EXCEPT !.date = Some(d)]
    /\ ret.call = "by_date"
    /\ IsYMD(ret.key, d)

C14_OnlyBaseRaises ==
    /\ ret.call = "base_predicate" => ret.kind = "UnsupportedCriterionError"
    /\ ret.call = "built_predicate" =>
          (ret.kind = "bool" /\ ret.key # "AttributeFilter" /\ Val(ret.value) \in BOOLEAN)

\* a base predicate was invoked and raised, after create_filters had built
\* a list of three predicates
C14_Witness ==
    /\ Len(filters) = 3
    /\ ret.call = "base_predicate"
    /\ ret.kind = "UnsupportedCriterionError"

\* the records of the base list that every predicate of fs accepts, in the
\* order of the base list
Matching(fs) ==
    SelectSeq(cdcObjs, LAMBDA r : \A j \in 1..Len(fs) : Call(fs[j], objs[r]))

IsPrefix(s, t) == Len(s) <= Len(t) /\ s = SubSeq(t, 1, Len(s))

\* a generator has scanned from the start of the base list
ScansFromStart(g) ==
    /\ g.status = "open" => IsPrefix(g.out, Matching(g.filters))
    /\ g.status = "done" => g.out = Matching(g.filters)

\* C15: every call of query scans the base list from its start, whatever
\* generators were created before and however far they were consumed, and
\* two calls with the same predicates yield the same sequence
C15_Restartable ==
    /\ ScansFromStart(gen)
    /\ ScansFromStart(gen2)
    /\ (gen.status = "done" /\ gen2.status = "done" /\ SameFilters(gen.filters, gen2.filters))
          => gen.out = gen2.out

\* the second generator has finished and yielded two records while an earlier
\* generator with the same predicates is suspended in the middle of the list
C15_Witness ==
    /\ gen.status = "open"
    /\ gen.pos >= 1
    /\ gen.pos < Len(cdcObjs)
    /\ Len(gen.filters) = 1
    /\ SameFilters(gen.filters, gen2.filters)
    /\ gen2.status = "done"
    /\ Len(gen2.out) = 2

\* what query(fs) yields when nothing else runs
Alone(fs) == Drain(objs, cdcObjs, NewGen(fs)).out

\* a generator stepped among the others yields what it yields alone
YieldsAsAlone(g) ==
    /\ g.status = "open" => IsPrefix(g.out, Alone(g.filters))
    /\ g.status = "done" => g.out = Alone(g.filters)
    /\ g.status # "raised"

\* the bucket of a key as __init__ built it
BuiltBucket(index, key) == IF key \in DOMAIN index THEN index[key] ELSE <<>>

\* C16: with query generators and index lookups stepped in any interleaving,
\* each query yields exactly the sequence it yields when run alone, and each
\* lookup returns exactly the bucket built at construction
C16_ReadersIndependent ==
    /\ YieldsAsAlone(gen)
    /\ YieldsAsAlone(gen2)
    /\ ret.call = "by_date" =>
          (ret.kind = "list" /\ ret.value = BuiltBucket(BuiltIndexes.by_date, ret.key))
    /\ ret.call = "by_state" =>
          (ret.kind = "list" /\ ret.value = BuiltBucket(BuiltIndexes.by_state, ret.key))

\* one generator has finished, the other is suspended behind it in the middle
\* of the list, and a lookup has returned a bucket after another lookup missed
C16_Witness ==
    /\ Len(cdcObjs) = 3
    /\ gen.status = "open"
    /\ gen.pos = 1
    /\ gen2.status = "done"
    /\ Len(gen2.out) >= 1
    /\ ret.kind = "list"
    /\ Len(ret.value) >= 1
    /\ data_by_date # BuiltIndexes.by_date

\* the bundle sets date and at least one of start_date, end_date
DateWithRange(a) ==
    ~IsNone(a.date) /\ (~IsNone(a.start_date) \/ ~IsNone(a.end_date))

\* the date of the bundle is within the bounds the bundle sets
DateInRange(a) ==
    /\ IsNone(a.start_date) \/ DayNumber(Val(a.start_date)) <= DayNumber(Val(a.date))
    /\ IsNone(a.end_date) \/ DayNumber(Val(a.date)) <= DayNumber(Val(a.end_date))

\* the result of the query with the date criterion of the bundle alone
DateAlone(a) ==
    Drain(objs, cdcObjs, NewGen(create_filters([NoArgs EXCEPT !.date = a.date]))).out

\* C17: the result of a query with date together with start_date and/or
\* end_date is an order-preserving subsequence of the result with date alone;
\* the two are equal when start_date <= date <= end_date, and the result is
\* empty, not an error, when date lies outside the range
C17_RangeNarrowsDate ==
    (gen.status # "none" /\ DateWithRange(args)) =>
        /\ gen.status # "raised"
        /\ IsSubsequence(gen.out, DateAlone(args))
        /\ (gen.status = "done" /\ DateInRange(args)) => gen.out = DateAlone(args)
        /\ ~DateInRange(args) => gen.out = <<>>

\* a finished query with date equal to start_date and before end_date, that
\* emitted the two records of that day out of a base list of three
C17_Witness ==
    /\ gen.status = "done"
    /\ Len(cdcObjs) = 3
    /\ DateWithRange(args)
    /\ ~IsNone(args.start_date)
    /\ ~IsNone(args.end_date)
    /\ Val(args.start_date) = Val(args.date)
    /\ DayNumber(Val(args.date)) < DayNumber(Val(args.end_date))
    /\ Len(gen.out) = 2

\* the bundle sets date criteria only
OnlyDates(a) ==
    [a EXCEPT !.date = None, !.start_date = None, !.end_date = None] = NoArgs

\* the calendar day of a record, as a number YYYYMMDD; its time of day plays
\* no part
DayOf(rec) == rec.date.year * 10000 + rec.date.month * 100 + rec.date.day

IsIntegerText(cell) ==
    LET body == IF Len(cell) > 0 /\ cell[1] \in {"-", "+"} THEN Tail(cell) ELSE cell
    IN  Len(body) > 0 /\ \A k \in 1..Len(body) : body[k] \in Digits

\* the value a counter cell stands for: 0 when it is empty
CounterValue(cell) == IF Len(cell) = 0 THEN 0 ELSE NumberOf(cell)

\* a row coerces successfully: every counter cell is empty or an integer, and
\* the date cell is a calendar date
RowCoerces(row) ==
    /\ \A k \in 1..Len(NumericColumns) :
          Len(row[NumericColumns[k]]) = 0 \/ IsIntegerText(row[NumericColumns[k]])
    /\ ~cd_to_datetime(row.date).raised

\* the rows of the file that coerce successfully, in source order
CoercibleRows == SelectSeq(csv.rows, RowCoerces)

\* C19: load_cdc_data turns every empty counter cell into 0, drops a row that
\* fails coercion and goes on: it never ends with an error, and the list it
\* returns holds exactly the rows that coerce successfully, in source order
C19_BadRowsDropped ==
    csv.status # "none" =>
        /\ csv.status = "returned"
        /\ Len(cdcObjs) = Len(CoercibleRows)
        /\ \A i \in 1..Len(cdcObjs) :
              /\ objs[cdcObjs[i]].state = CoercibleRows[i].state
              /\ objs[cdcObjs[i]].date = cd_to_datetime(CoercibleRows[i].date).value
              /\ objs[cdcObjs[i]].death = CounterValue(CoercibleRows[i].death)
              /\ objs[cdcObjs[i]].inIcuCurrently = CounterValue(CoercibleRows[i].inIcuCurrently)

\* C20: the query subcommand prints the matching records in query order, at
\* most args.limit of them when a limit is specified and at most 50 when no
\* limit was specified
C20_PrintsAtMostLimit ==
    cmd.status = "done" =>
        /\ IsPrefix(cmd.printed, Matching(filters))
        /\ ~IsNone(cmd.limit) => Len(cmd.printed) <= Val(cmd.limit)
        /\ IsNone(cmd.limit) => Len(cmd.printed) <= DefaultLimit

\* one resumption of a generator takes at least one more record of the base
\* list, or ends the scan at the end of the list
ScanAdvances ==
    (gen.status = "open" /\ gen' # gen) =>
        \/ gen'.status = "open" /\ gen'.pos > gen.pos /\ gen'.pos <= Len(cdcObjs)
        \/ gen'.status = "done" /\ gen'.pos = Len(cdcObjs)

\* C21: every operation terminates: construction completes, and a query
\* generator consumed to exhaustion finishes, for any predicate collection,
\* after its loop has taken each of the N records of the base list exactly
\* once: its position only moves forward, by the records a resumption scans,
\* and stands at N when it finishes
C21_Terminates ==
    /\ <>constructed
    /\ [][ScanAdvances]_vars
    /\ [](gen.status = "done" => gen.pos = Len(cdcObjs))
    /\ (gen.status = "open") ~> (gen.status = "done")

\* a generator with two predicates has finished on a base list of three
\* records after yielding one of them
C21_Witness ==
    /\ gen.status = "done"
    /\ Len(gen.filters) = 2
    /\ Len(cdcObjs) = 3
    /\ gen.pos = 3
    /\ Len(gen.out) = 1

\* the records of the base list, in its order, whose date is the day the key
\* writes as YYYY-MM-DD / whose state is the key
WithDate(key) == SelectSeq(cdcObjs, LAMBDA r : IsYMD(key, objs[r].date))
WithState(key) == SelectSeq(cdcObjs, LAMBDA r : objs[r].state = key)

\* C22: each index bucket keeps the order of encounter: for every key the
\* bucket of by_date (of by_state) is exactly the order-preserving subsequence
\* of the base list made of the records having that date (that state)
C22_BucketsInBaseOrder ==
    constructed =>
        /\ \A key \in DOMAIN data_by_date : data_by_date[key] = WithDate(key)
        /\ \A key \in DOMAIN data_by_state : data_by_state[key] = WithState(key)

\* an index built from three records where the first and the third share a
\* state the second has not, and two of them share a day
C22_Witness ==
    /\ constructed
    /\ Len(cdcObjs) = 3
    /\ objs[cdcObjs[1]].state = objs[cdcObjs[3]].state
    /\ objs[cdcObjs[1]].state # objs[cdcObjs[2]].state
    /\ data_by_state[objs[cdcObjs[1]].state] = <<cdcObjs[1], cdcObjs[3]>>
    /\ \E key \in DOMAIN data_by_date : Len(data_by_date[key]) = 2

\* the counter f of a record is within the bounds of f that are present in
\* the bundle
WithinBounds(a, f, rec) ==
    /\ Present(a, f \o "_min") => CounterOf(f, rec) >= Val(MinOf(a, f))
    /\ Present(a, f \o "_max") => CounterOf(f, rec) <= Val(MaxOf(a, f))

\* C23: each numeric predicate reads one fixed raw counter (Hospitalized reads
\* hospitalizedCurrently, Icu inIcuCurrently, OnVent onVentilatorCurrently,
\* Death death): a query by the bounds of one counter emits a record exactly
\* when the operator holds between that counter and the reference value,
\* whatever the cumulative counters and the other attributes of the record
C23_ReadsOwnCounter ==
    gen.status = "done" =>
        \A f \in Counters :
            (Present(args, f \o "_min") \/ Present(args, f \o "_max")) =>
                \A i \in 1..Len(cdcObjs) :
                    cdcObjs[i] \in Emitted(gen) <=> WithinBounds(args, f, objs[cdcObjs[i]])

\* a finished query with onvent_min = 1 that emitted a record on 1 ventilator
\* whose cumulative counter is 0 and left out a record on 0 ventilators whose
\* cumulative counter is 2
C23_Witness ==
    /\ gen.status = "done"
    /\ args.onvent_min = Some(1)
    /\ IsNone(args.onvent_max)
    /\ \E i \in 1..Len(gen.out) :
          /\ objs[gen.out[i]].onVentilatorCurrently = 1
          /\ objs[gen.out[i]].onVentilatorCumulative = 0
    /\ \E i \in 1..Len(cdcObjs) :
          /\ cdcObjs[i] \notin Emitted(gen)
          /\ objs[cdcObjs[i]].onVentilatorCurrently = 0
          /\ objs[cdcObjs[i]].onVentilatorCumulative = 2

\* C24: limit with a positive n does not stop early: when it returns, the
\* generator it was given is exhausted, every record of the base list scanned,
\* even if n matching elements came before the end; limit(it, 0) and
\* limit(it, None) take nothing from the generator
C24_LimitDrains ==
    [][(lim.status = "none" /\ lim'.status = "returned") =>
          IF IsNone(lim'.n) \/ Val(lim'.n) = 0
          THEN gen'.status = "open" /\ gen'.pos = 0 /\ gen'.out = <<>>
          ELSE /\ gen'.status = "done"
               /\ gen'.pos = Len(cdcObjs)
               /\ gen'.out = Matching(gen'.filters)
               /\ lim'.list = FirstOf(gen'.out, Val(lim'.n))]_vars

\* limit(results, 1) has returned one record of a query that matches two
\* more, and the generator is finished at the end of a base list of three
C24_Witness ==
    /\ lim.status = "returned"
    /\ lim.n = Some(1)
    /\ Len(lim.list) = 1
    /\ Len(cdcObjs) = 3
    /\ gen.status = "done"
    /\ gen.pos = 3
    /\ Len(gen.out) = 3

====
